---- MODULE Spec2Model ----
(***************************************************************************)
(* A model of Fitness.py: the credential functions (hash_password,         *)
(* verify_password), the sqlite tables of class DB (users, daily, goals)   *)
(* and the handlers of class FitnessApp that read and write them.          *)
(*                                                                         *)
(* Text is a sequence of character codes.  A nullable value (Python None,  *)
(* SQL NULL) is None == <<>> and a present value v is Some(v) == <<v>>.    *)
(* A call that may raise returns [ok |-> TRUE, val |-> v] or Raise.        *)
(***************************************************************************)
EXTENDS Integers, Sequences, FiniteSets, TLC

\* ------------------------------------------------------------------ values

None == <<>>
Some(v) == <<v>>
IsSome(o) == Len(o) = 1
Val(o) == o[1]

Raise == [ok |-> FALSE]
Ok(v) == [ok |-> TRUE, val |-> v]

\* Character codes of the texts the handlers read.
ChNul == 0
ChSpace == 32
Ch0 == 48
Ch9 == 57
ChDash == 45

IsSpace(c) == c = ChSpace
IsDigit(c) == c >= Ch0 /\ c <= Ch9

RECURSIVE LStrip(_)
LStrip(t) == IF t # <<>> /\ IsSpace(Head(t)) THEN LStrip(Tail(t)) ELSE t

RECURSIVE RStrip(_)
RStrip(t) ==
    IF t # <<>> /\ IsSpace(t[Len(t)]) THEN RStrip(SubSeq(t, 1, Len(t) - 1)) ELSE t

\* str.strip()
Strip(t) == RStrip(LStrip(t))

RECURSIVE DigitsValue(_)
DigitsValue(t) ==
    IF t = <<>> THEN 0 ELSE 10 * DigitsValue(SubSeq(t, 1, Len(t) - 1)) + (t[Len(t)] - Ch0)

\* int(text) and float(text) on texts of digits, letters and spaces: the
\* surrounding whitespace is ignored, a non-empty run of digits is its value,
\* anything else raises ValueError.
ParseNumber(t) ==
    LET s == Strip(t)
    IN  IF s # <<>> /\ \A i \in 1..Len(s) : IsDigit(s[i]) THEN Ok(DigitsValue(s)) ELSE Raise

\* ------------------------------------------------------------- credentials

SALT_BYTES == 16
\* Digest size and block size of HASH_NAME = 'sha256'.
DK_LEN == 32
HMAC_BLOCK == 64

\* The number of values make_salt() draws from.
NSalts == 2

\* def make_salt(): secrets.token_bytes(SALT_BYTES), any of the values drawn from.
make_salt == {[i \in 1..SALT_BYTES |-> s] : s \in 1..NSalts}

\* base64 text is a sequence over the alphabet's indices 0..63, B64Pad for '='
\* and B64Other for a character outside the alphabet.
B64Pad == 64
B64Other == 65

\* base64.b64encode(raw).decode('utf-8')
B64Encode(raw) ==
    LET n == Len(raw)
        byte(i) == IF i <= n THEN raw[i] ELSE 0
    IN  [i \in 1..(4 * ((n + 2) \div 3)) |->
            LET g == (i - 1) \div 4
                k == (i - 1) % 4
                b0 == byte(3 * g + 1)
                b1 == byte(3 * g + 2)
                b2 == byte(3 * g + 3)
            IN  CASE k = 0 -> b0 \div 4
                  [] k = 1 -> (b0 % 4) * 16 + (b1 \div 16)
                  [] k = 2 -> IF 3 * g + 2 > n THEN B64Pad ELSE (b1 % 16) * 4 + (b2 \div 64)
                  [] OTHER -> IF 3 * g + 3 > n THEN B64Pad ELSE b2 % 64]

\* binascii.a2b_base64 in its non-strict mode, the loop base64.b64decode runs.
\* The loop keeps quad_pos (data characters read so far, modulo 4) and pads
\* (pad characters since the last data character, counted while quad_pos >= 2);
\* it skips a character outside the alphabet, stops at a pad with
\* quad_pos >= 2 and quad_pos + pads >= 4, emits a byte at the 2nd, 3rd and 4th
\* character of a quad, and raises binascii.Error when the text ends inside a
\* quad.  Written here by position instead of as a loop.
IsB64Data(c) == c < B64Pad
B64Stop(text) ==
    LET n == Len(text)
        lastData(i) ==
            LET d == {j \in 1..(i - 1) : IsB64Data(text[j])}
            IN  IF d = {} THEN 0 ELSE CHOOSE j \in d : \A k \in d : k <= j
        quad_pos(i) == Len(SelectSeq(SubSeq(text, 1, i - 1), IsB64Data)) % 4
        pads(i) == Cardinality({j \in (lastData(i) + 1)..i : text[j] = B64Pad})
        stops == {i \in 1..n : /\ text[i] = B64Pad
                               /\ quad_pos(i) >= 2
                               /\ quad_pos(i) + pads(i) >= 4}
    IN  IF stops = {} THEN n + 1 ELSE CHOOSE i \in stops : \A k \in stops : i <= k
B64Loop(text) ==
    LET stop == B64Stop(text)
        data == SelectSeq(SubSeq(text, 1, stop - 1), IsB64Data)
        n == Len(data)
        r == n % 4
        nbytes == 3 * (n \div 4) + (IF r >= 2 THEN r - 1 ELSE 0)
        out == [j \in 1..nbytes |->
                   LET g == (j - 1) \div 3
                       k == (j - 1) % 3
                   IN  CASE k = 0 -> data[4 * g + 1] * 4 + (data[4 * g + 2] \div 16)
                         [] k = 1 -> (data[4 * g + 2] % 16) * 16 + (data[4 * g + 3] \div 4)
                         [] OTHER -> (data[4 * g + 3] % 4) * 64 + data[4 * g + 4]]
    IN  IF stop > Len(text) /\ r # 0 THEN Raise ELSE Ok(out)

\* base64.b64decode(stored_hash.encode('utf-8')): None has no encode().
B64Decode(stored) == IF ~IsSome(stored) THEN Raise ELSE B64Loop(Val(stored))

\* HMAC's key block (RFC 2104): a key no longer than the block is padded with
\* zero bytes to HMAC_BLOCK bytes.  (A longer key is first digested; the keys
\* of this model are shorter.)
HmacKey(key) == [i \in 1..HMAC_BLOCK |-> IF i <= Len(key) THEN key[i] ELSE 0]

\* hashlib.pbkdf2_hmac(HASH_NAME, password, salt, HASH_ITERS): DK_LEN bytes that
\* depend on the password only through its HMAC key block, and are otherwise
\* taken to be collision-free: the derived key stands for the pair (key block,
\* salt), which it lists (keys up to DK_LEN - SALT_BYTES bytes).
Pbkdf2(password, salt) ==
    LET kb == HmacKey(password)
        klen == DK_LEN - SALT_BYTES
    IN  [i \in 1..DK_LEN |->
            IF i <= klen THEN kb[i]
            ELSE IF i - klen <= Len(salt) THEN salt[i - klen] ELSE 0]

\* def hash_password(password, salt)
hash_password(password, salt) == B64Encode(salt \o Pbkdf2(password, salt))

\* The try body of verify_password: a boolean, or Raise.
VerifyBody(stored_hash, password_attempt) ==
    LET dec == B64Decode(stored_hash)
    IN  IF ~dec.ok THEN Raise
        ELSE LET raw == dec.val
                 salt == SubSeq(raw, 1, IF Len(raw) < SALT_BYTES THEN Len(raw) ELSE SALT_BYTES)
                 stored_dk == SubSeq(raw, SALT_BYTES + 1, Len(raw))
                 attempt_dk == Pbkdf2(password_attempt, salt)
             IN  Ok(stored_dk = attempt_dk)

\* A variant of verify_password whose except clause returns True.
verify_password_except_true(stored_hash, password_attempt) ==
    LET r == VerifyBody(stored_hash, password_attempt)
    IN  IF r.ok THEN r ELSE Ok(TRUE)

\* A variant of verify_password without the try/except.
verify_password_no_except(stored_hash, password_attempt) ==
    VerifyBody(stored_hash, password_attempt)

\* def verify_password(stored_hash, password_attempt): how the call ends.  The
\* except clause turns whatever the body raises into the result False.
verify_password(stored_hash, password_attempt) ==
    LET r == VerifyBody(stored_hash, password_attempt)
    IN  IF r.ok THEN r ELSE Ok(FALSE)

\* ---------------------------------------------------------------- class DB

VARIABLES
    users,          \* table users: a set of rows
    daily,          \* table daily: the rows in insertion order (id = position)
    goals,          \* table goals: a set of rows
    current_user,   \* FitnessApp.current_user: None or Some(username)
    signup_open,    \* whether the Signup window (and its Create Account button) exists
    handler,        \* the callback Tk ran last
    msg,            \* the message box that handler showed, or how it ended
    insight_text,   \* the lines of the Insights tab's text widget (no lines
                    \* while the main screen does not exist)
    probe,          \* a call of a function on its own: arguments and result
    typed_answer    \* history: the security answer each account was created
                    \* with (the program keeps only its hash)

vars ==
    <<users, daily, goals, current_user, signup_open, handler, msg, insight_text, probe,
      typed_answer>>

\* No callback has run yet.
NoHandler == "(none)"
\* How a handler ends when it shows no message box.
NoDialog == "(no dialog)"
\* An exception no handler catches: Tk reports it and the callback is abandoned.
Uncaught == "(uncaught exception)"

\* cur.fetchone() of SELECT ... WHERE username = ?
FetchOne(table, username) ==
    IF \E r \in table : r.username = username
    THEN Some(CHOOSE r \in table : r.username = username)
    ELSE None

\* DB.get_user
get_user(username) == FetchOne(users, username)

\* DB.create_user: INSERT INTO users; username is the PRIMARY KEY, so a second
\* row of the same username raises sqlite3.IntegrityError.
UserRow(username, password_hash, age, height, weight, security_q, security_a_hash) ==
    [username |-> username, password_hash |-> password_hash, age |-> age,
     height_cm |-> height, weight_kg |-> weight, security_q |-> security_q,
     security_a_hash |-> security_a_hash]
create_user(username, password_hash, age, height, weight, security_q, security_a_hash) ==
    IF \E r \in users : r.username = username
    THEN Raise
    ELSE Ok(users \cup {UserRow(username, password_hash, age, height, weight,
                                 security_q, security_a_hash)})

\* DB.update_user_info: UPDATE users SET age = ?, height_cm = ?, weight_kg = ?
\* WHERE username = ?
update_user_info(username, age, height, weight) ==
    {IF r.username = username
     THEN [r EXCEPT !.age = age, !.height_cm = height, !.weight_kg = weight]
     ELSE r : r \in users}

\* A variant of set_password whose UPDATE has no WHERE clause.
set_password_all(username, password_hash) ==
    {[r EXCEPT !.password_hash = password_hash] : r \in users}

\* DB.set_password: UPDATE users SET password_hash = ? WHERE username = ?
set_password(username, password_hash) ==
    {IF r.username = username THEN [r EXCEPT !.password_hash = password_hash] ELSE r :
        r \in users}

\* A variant of add_daily that keeps one row per user and date: it replaces
\* the row of the same username and date when there is one.
add_daily_replace(username, date_str, sleep, weight, calories, steps) ==
    LET row == [username |-> username, date |-> date_str, sleep_hrs |-> sleep,
                weight |-> weight, calories |-> calories, steps |-> steps,
                note |-> None]
        same == {i \in 1..Len(daily) :
                    daily[i].username = username /\ daily[i].date = date_str}
    IN  IF same = {}
        THEN Append(daily, [id |-> Len(daily) + 1] @@ row)
        ELSE [i \in 1..Len(daily) |->
                 IF i \in same THEN [id |-> i] @@ row ELSE daily[i]]

\* DB.add_daily: INSERT INTO daily; id is AUTOINCREMENT.
add_daily(username, date_str, sleep, weight, calories, steps) ==
    Append(daily, [id |-> Len(daily) + 1, username |-> username, date |-> date_str,
                   sleep_hrs |-> sleep, weight |-> weight, calories |-> calories,
                   steps |-> steps, note |-> None])

\* A variant of upsert_goals that merges: an absent argument keeps the stored value.
upsert_goals_merge(username, weight_goal, steps_goal, calories_goal, sleep_goal) ==
    LET keep(new, old) == IF new = None THEN old ELSE new
    IN  IF \E r \in goals : r.username = username
        THEN {IF r.username = username
              THEN [r EXCEPT !.weight_goal = keep(weight_goal, @),
                             !.steps_goal = keep(steps_goal, @),
                             !.calories_goal = keep(calories_goal, @),
                             !.sleep_goal = keep(sleep_goal, @)]
              ELSE r : r \in goals}
        ELSE goals \cup {[username |-> username, weight_goal |-> weight_goal,
                          steps_goal |-> steps_goal, calories_goal |-> calories_goal,
                          sleep_goal |-> sleep_goal]}

\* A variant of upsert_goals that always INSERTs.
upsert_goals_insert(username, weight_goal, steps_goal, calories_goal, sleep_goal) ==
    goals \cup {[username |-> username, weight_goal |-> weight_goal,
                 steps_goal |-> steps_goal, calories_goal |-> calories_goal,
                 sleep_goal |-> sleep_goal]}

\* DB.upsert_goals: UPDATE the row of the username when one exists, else INSERT.
upsert_goals(username, weight_goal, steps_goal, calories_goal, sleep_goal) ==
    IF IsSome(FetchOne(goals, username))
    THEN {IF r.username = username
          THEN [r EXCEPT !.weight_goal = weight_goal, !.steps_goal = steps_goal,
                         !.calories_goal = calories_goal, !.sleep_goal = sleep_goal]
          ELSE r : r \in goals}
    ELSE goals \cup {[username |-> username, weight_goal |-> weight_goal,
                      steps_goal |-> steps_goal, calories_goal |-> calories_goal,
                      sleep_goal |-> sleep_goal]}

\* DB.get_goals
get_goals(username) == FetchOne(goals, username)

\* The order of two TEXT values in sqlite (BINARY collation): byte by byte, a
\* proper prefix first.
RECURSIVE TextLess(_, _)
TextLess(a, b) ==
    IF b = <<>> THEN FALSE
    ELSE IF a = <<>> THEN TRUE
    ELSE IF Head(a) # Head(b) THEN Head(a) < Head(b)
    ELSE TextLess(Tail(a), Tail(b))

\* SELECT date, sleep_hrs, weight, calories, steps
SelectedColumns(r) ==
    [date |-> r.date, sleep_hrs |-> r.sleep_hrs, weight |-> r.weight,
     calories |-> r.calories, steps |-> r.steps]

\* ORDER BY date of the rows of `table` with the ids in `ids`: every listing of
\* the ids in which no date is followed by a smaller one (SQL leaves the order
\* of rows of equal date open).
RECURSIVE OrderByDate(_, _)
OrderByDate(table, ids) ==
    IF ids = {} THEN {<<>>}
    ELSE LET first == {i \in ids : \A j \in ids : ~TextLess(table[j].date, table[i].date)}
         IN  UNION {{<<i>> \o rest : rest \in OrderByDate(table, ids \ {i})} : i \in first}

\* fetchall(): the selected columns of the rows in the order of a listing
RECURSIVE FetchAll(_, _)
FetchAll(table, p) ==
    IF p = <<>> THEN <<>>
    ELSE <<SelectedColumns(table[Head(p)])>> \o FetchAll(table, Tail(p))

\* DB.get_daily_range on the daily table `table`: the possible results;
\* start_date and end_date are None or Some(text), and `if start_date:` takes an
\* empty text for None.
get_daily_range(table, username, start_date, end_date) ==
    LET ids == {i \in 1..Len(table) :
                   /\ table[i].username = username
                   /\ start_date # None /\ Val(start_date) # <<>>
                        => ~TextLess(table[i].date, Val(start_date))
                   /\ end_date # None /\ Val(end_date) # <<>>
                        => ~TextLess(Val(end_date), table[i].date)}
    IN  {FetchAll(table, p) : p \in OrderByDate(table, ids)}

\* DB.get_last_n_days on the daily table `table`: the possible results.  ORDER
\* BY date DESC LIMIT n keeps the last n rows of an ascending listing, and
\* reversed() lists them ascending.
get_last_n_days(table, username, n) ==
    LET ids == {i \in 1..Len(table) : table[i].username = username}
        k == Cardinality(ids)
        m == IF n < k THEN n ELSE k
    IN  {FetchAll(table, SubSeq(p, k - m + 1, k)) : p \in OrderByDate(table, ids)}

\* ------------------------------------------------------------------ floats

\* Python's float is the IEEE 754 double: a sign, a significand of at most
\* FLOAT_BITS bits and a power of two.  A significand does not fit an integer
\* of this model, so a natural number is kept as its digits to the base
\* LimbBase, lowest first and without leading zeros (zero has no digit).
FLOAT_BITS == 53
LimbBits == 15
LimbBase == 32768

RECURSIVE Pow2(_)
Pow2(n) == IF n = 0 THEN 1 ELSE 2 * Pow2(n - 1)

RECURSIVE NatOfInt(_)
NatOfInt(n) == IF n = 0 THEN <<>> ELSE <<n % LimbBase>> \o NatOfInt(n \div LimbBase)

RECURSIVE IntOfNat(_)
IntOfNat(a) == IF a = <<>> THEN 0 ELSE Head(a) + LimbBase * IntOfNat(Tail(a))

RECURSIVE NatTrim(_)
NatTrim(a) ==
    IF a = <<>> THEN <<>>
    ELSE IF a[Len(a)] = 0 THEN NatTrim(SubSeq(a, 1, Len(a) - 1))
    ELSE a

RECURSIVE NatAddCarry(_, _, _)
NatAddCarry(a, b, c) ==
    IF a = <<>> /\ b = <<>> THEN (IF c = 0 THEN <<>> ELSE <<c>>)
    ELSE LET x == IF a = <<>> THEN 0 ELSE Head(a)
             y == IF b = <<>> THEN 0 ELSE Head(b)
             t == x + y + c
         IN  <<t % LimbBase>>
             \o NatAddCarry(IF a = <<>> THEN <<>> ELSE Tail(a),
                            IF b = <<>> THEN <<>> ELSE Tail(b), t \div LimbBase)
NatAdd(a, b) == NatAddCarry(a, b, 0)

\* a - b for a >= b
RECURSIVE NatSubBorrow(_, _, _)
NatSubBorrow(a, b, c) ==
    IF a = <<>> THEN <<>>
    ELSE LET y == IF b = <<>> THEN 0 ELSE Head(b)
             t == Head(a) - y - c
         IN  <<IF t < 0 THEN t + LimbBase ELSE t>>
             \o NatSubBorrow(Tail(a), IF b = <<>> THEN <<>> ELSE Tail(b),
                             IF t < 0 THEN 1 ELSE 0)
NatSub(a, b) == NatTrim(NatSubBorrow(a, b, 0))

\* -1, 0 or 1 as a < b, a = b or a > b
RECURSIVE NatCmp(_, _)
NatCmp(a, b) ==
    IF Len(a) # Len(b) THEN (IF Len(a) < Len(b) THEN -1 ELSE 1)
    ELSE IF a = <<>> THEN 0
    ELSE IF a[Len(a)] # b[Len(b)] THEN (IF a[Len(a)] < b[Len(b)] THEN -1 ELSE 1)
    ELSE NatCmp(SubSeq(a, 1, Len(a) - 1), SubSeq(b, 1, Len(b) - 1))

\* a * d + c for a digit d
RECURSIVE NatMulDigit(_, _, _)
NatMulDigit(a, d, c) ==
    IF a = <<>> THEN (IF c = 0 THEN <<>> ELSE <<c>>)
    ELSE LET t == Head(a) * d + c
         IN  <<t % LimbBase>> \o NatMulDigit(Tail(a), d, t \div LimbBase)

RECURSIVE NatMul(_, _)
NatMul(a, b) ==
    IF a = <<>> \/ b = <<>> THEN <<>>
    ELSE NatAdd(NatMulDigit(a, Head(b), 0),
                IF Tail(b) = <<>> THEN <<>> ELSE <<0>> \o NatMul(a, Tail(b)))

\* <<a \div d, a % d>> for a digit d > 0, from the highest digit down
RECURSIVE NatDivDigit(_, _)
NatDivDigit(a, d) ==
    IF a = <<>> THEN <<(<<>>), 0>>
    ELSE LET high == NatDivDigit(Tail(a), d)
             t == high[2] * LimbBase + Head(a)
         IN  <<NatTrim(<<t \div d>> \o high[1]), t % d>>

\* a * 2^n and a \div 2^n
NatShl(a, n) ==
    IF a = <<>> THEN <<>>
    ELSE [i \in 1..(n \div LimbBits) |-> 0] \o NatMulDigit(a, Pow2(n % LimbBits), 0)
NatShr(a, n) ==
    IF Len(a) <= n \div LimbBits THEN <<>>
    ELSE NatDivDigit(SubSeq(a, (n \div LimbBits) + 1, Len(a)), Pow2(n % LimbBits))[1]

\* The number of binary digits of a
RECURSIVE IntBits(_)
IntBits(n) == IF n = 0 THEN 0 ELSE 1 + IntBits(n \div 2)
NatBits(a) == IF a = <<>> THEN 0 ELSE LimbBits * (Len(a) - 1) + IntBits(a[Len(a)])

\* a \div 2^n rounded to the nearest, to the even one of two equally near
NatShrHalfEven(a, n) ==
    IF n = 0 THEN a
    ELSE LET nearest(q, c) ==
                 IF c > 0 \/ (c = 0 /\ q # <<>> /\ Head(q) % 2 = 1) THEN NatAdd(q, <<1>>) ELSE q
             \* c compares twice the remainder with 2^n
             quotient(q) ==
                 nearest(q, NatCmp(NatShl(NatSub(a, NatShl(q, n)), 1), NatShl(<<1>>, n)))
         IN  quotient(NatShr(a, n))

\* The float sign * m * 2^e; its significand is kept odd (zero: no digits),
\* so that one number has one representation.
RECURSIVE FloatOdd(_, _, _)
FloatOdd(sign, m, e) ==
    IF m = <<>> THEN [sign |-> sign, m |-> <<>>, e |-> 0]
    ELSE IF Head(m) = 0 THEN FloatOdd(sign, Tail(m), e + LimbBits)
    ELSE IF Head(m) % 2 = 0 THEN FloatOdd(sign, NatDivDigit(m, 2)[1], e + 1)
    ELSE [sign |-> sign, m |-> m, e |-> e]

\* The double nearest to sign * m * 2^e (round-half-even, the rounding of
\* every float operation); exponents stay far from the ends of the range.
FloatRound(sign, m, e) ==
    LET nearest(excess) ==
            IF excess <= 0 THEN FloatOdd(sign, m, e)
            ELSE FloatOdd(sign, NatShrHalfEven(m, excess), e + excess)
    IN  nearest(NatBits(m) - FLOAT_BITS)

\* float(n) of an integer n
FloatOfInt(n) == IF n < 0 THEN FloatOdd(-1, NatOfInt(-n), 0) ELSE FloatOdd(1, NatOfInt(n), 0)

FloatNeg(x) == [x EXCEPT !.sign = -x.sign]

\* x + y
FloatAdd(x, y) ==
    IF x.m = <<>> THEN y
    ELSE IF y.m = <<>> THEN x
    ELSE LET e == IF x.e < y.e THEN x.e ELSE y.e
             \* a and b are the significands at the power 2^e, c compares them
             total(a, b, c) ==
                 IF x.sign # y.sign /\ c = 0 THEN [sign |-> 1, m |-> <<>>, e |-> 0]
                 ELSE FloatRound(IF x.sign = y.sign \/ c > 0 THEN x.sign ELSE y.sign,
                                 IF x.sign = y.sign THEN NatAdd(a, b)
                                 ELSE IF c > 0 THEN NatSub(a, b) ELSE NatSub(b, a), e)
             aligned(a, b) == total(a, b, NatCmp(a, b))
         IN  aligned(NatShl(x.m, x.e - e), NatShl(y.m, y.e - e))

\* x - y
FloatSub(x, y) == FloatAdd(x, FloatNeg(y))

\* x * y
FloatMul(x, y) == FloatRound(x.sign * y.sign, NatMul(x.m, y.m), x.e + y.e)

\* x / y for a y whose odd significand is one digit (an integer below
\* LimbBase times a power of two, as a count of samples is): two bits more than
\* a double keeps, and one bit that tells whether anything was left over.
FloatDiv(x, y) ==
    LET quotient(qr, shift) ==
            FloatRound(x.sign * y.sign,
                       NatAdd(NatShl(qr[1], 1), IF qr[2] = 0 THEN <<>> ELSE <<1>>),
                       x.e - y.e - shift - 1)
        shifted(shift) == quotient(NatDivDigit(NatShl(x.m, shift), Head(y.m)), shift)
        wanted(have, bits) == shifted(IF have < bits THEN bits - have ELSE 0)
    IN  wanted(NatBits(x.m), FLOAT_BITS + 2 + NatBits(y.m))

\* sum(): the floats added from left to right, starting from the integer 0
RECURSIVE FloatSum(_, _)
FloatSum(q, acc) == IF q = <<>> THEN acc ELSE FloatSum(Tail(q), FloatAdd(acc, Head(q)))

\* f'{x:.3f}' and the like: x * scale (a power of ten below LimbBase) rounded
\* to an integer, half to even, which is how Python formats the exact value of
\* a float.
FloatFormat(x, scale) ==
    LET scaled(n) == IF x.e >= 0 THEN NatShl(n, x.e) ELSE NatShrHalfEven(n, -x.e)
    IN  x.sign * IntOfNat(scaled(NatMulDigit(x.m, scale, 0)))

\* ------------------------------------------------------------- analytics

\* round(): the integer nearest to n / d (d > 0), the even one of two equally
\* near.  Python rounds a float to decimals, and formats it with .2f, by this
\* rule; a value scaled by 100 and rounded stands for its two-decimal text.
RoundHalfEven(n, d) ==
    LET q == IF n >= 0 THEN n \div d ELSE -((-n + d - 1) \div d)
        r == n - q * d
    IN  IF 2 * r < d THEN q
        ELSE IF 2 * r > d THEN q + 1
        ELSE IF q % 2 = 0 THEN q ELSE q + 1

\* def calc_bmi(weight_kg, height_cm): None for the except branch (a height of
\* 0 divides by zero), else Some(bmi in hundredths).
calc_bmi(weight_kg, height_cm) ==
    IF height_cm = 0 THEN None
    ELSE Some(RoundHalfEven(weight_kg * 1000000, height_cm * height_cm))

\* def bmi_category(bmi), bmi in hundredths
bmi_category(bmi) ==
    IF bmi = None THEN "Unknown"
    ELSE IF Val(bmi) < 1850 THEN "Underweight"
    ELSE IF Val(bmi) < 2500 THEN "Normal"
    ELSE IF Val(bmi) < 3000 THEN "Overweight"
    ELSE "Obese"

\* A variant of calc_bmr that takes the other branch.
calc_bmr_female(weight, height_cm, age, sex) ==
    RoundHalfEven(1000 * weight + 625 * height_cm - 500 * age - 16100, 10)

\* def calc_bmr(weight, height_cm, age, sex='male'): the BMR in tenths.
calc_bmr(weight, height_cm, age, sex) ==
    IF sex = "male"
    THEN RoundHalfEven(1000 * weight + 625 * height_cm - 500 * age + 500, 10)
    ELSE RoundHalfEven(1000 * weight + 625 * height_cm - 500 * age - 16100, 10)

\* The window of refresh_insights: get_last_n_days(self.current_user, n=30)
INSIGHT_DAYS == 30

\* A line of the Insights tab: the text before its numbers, the numbers (each
\* scaled by the power of ten of its format) and the word after them.
Line(kind, value, label) == [kind |-> kind, value |-> value, label |-> label]

RECURSIVE SumSeq(_)
SumSeq(q) == IF q = <<>> THEN 0 ELSE Head(q) + SumSeq(Tail(q))

\* `[x for x in arr if x is not None]`
RECURSIVE NotNone(_)
NotNone(arr) ==
    IF arr = <<>> THEN <<>>
    ELSE IF Head(arr) = None THEN NotNone(Tail(arr))
    ELSE <<Val(Head(arr))>> \o NotNone(Tail(arr))

\* `[r['weight'] for r in rows]` and the like
RECURSIVE Column(_, _)
Column(rows, f) == IF rows = <<>> THEN <<>> ELSE <<Head(rows)[f]>> \o Column(Tail(rows), f)

\* numeric_avg of refresh_insights: None, or Some of the mean as a fraction.
numeric_avg(arr) ==
    LET q == NotNone(arr)
    IN  IF q # <<>> THEN Some([num |-> SumSeq(q), den |-> Len(q)]) ELSE None

\* `if avg_sleep:` -- None and 0.0 are false
AvgTruthy(avg) == avg # None /\ Val(avg).num # 0
\* `g['steps_goal'] and ...` -- None and 0 are false
Truthy(v) == v # None /\ Val(v) # 0

\* f'{avg:.2f}' and the like: the mean scaled by `scale` and rounded
Fmt(avg, scale) == RoundHalfEven(Val(avg).num * scale, Val(avg).den)

\* The weight trend of refresh_insights (the body of its try): no line for
\* fewer than 3 weights, else the least-squares slope of the weights over
\* 0 .. k-1, computed in floats as the code computes it, in thousandths, and
\* its word.  The weights are floats (column weight is REAL).
RECURSIVE FloatsOfInts(_)
FloatsOfInts(q) ==
    IF q = <<>> THEN <<>> ELSE <<FloatOfInt(Head(q))>> \o FloatsOfInts(Tail(q))
\* `[x - mean for x in q]`
RECURSIVE Deviations(_, _)
Deviations(q, mean) ==
    IF q = <<>> THEN <<>> ELSE <<FloatSub(Head(q), mean)>> \o Deviations(Tail(q), mean)
\* `[a * b for a, b in zip(p, q)]`
RECURSIVE Products(_, _)
Products(p, q) ==
    IF p = <<>> THEN <<>> ELSE <<FloatMul(Head(p), Head(q))>> \o Products(Tail(p), Tail(q))
RECURSIVE Range(_, _)
Range(i, k) == IF i >= k THEN <<>> ELSE <<i>> \o Range(i + 1, k)
WeightSlope(ws) ==
    LET k == Len(ws)
        zero == [sign |-> 1, m |-> <<>>, e |-> 0]
        xs == Range(0, k)
        mean_x == FloatDiv(FloatOfInt(SumSeq(xs)), FloatOfInt(k))
        mean_y == FloatDiv(FloatSum(FloatsOfInts(ws), zero), FloatOfInt(k))
        slope(num, den) == IF den.m # <<>> THEN FloatDiv(num, den) ELSE zero
        \* dx and dy are `xi-mean_x` and `yi-mean_y`
        sums(dx, dy) == slope(FloatSum(Products(dx, dy), zero), FloatSum(Products(dx, dx), zero))
    IN  sums(Deviations(FloatsOfInts(xs), mean_x), Deviations(FloatsOfInts(ws), mean_y))
WeightTrend(ws) ==
    IF Len(ws) < 3 THEN <<>>
    ELSE LET line(slope) ==
                 Line("- Weight trend: slope", <<FloatFormat(slope, 1000)>>,
                      IF slope.m # <<>> /\ slope.sign < 0 THEN "losing"
                      ELSE IF slope.m # <<>> /\ slope.sign > 0 THEN "gaining"
                      ELSE "stable")
         IN  <<line(WeightSlope(ws))>>

\* A variant of the test below that takes every window for one with rows.
NoRowsNever(rows) == FALSE

\* `if not rows:` of refresh_insights
NoRows(rows) == rows = <<>>

\* The lines refresh_insights writes for the rows get_last_n_days returned.
InsightLines(rows, g, u) ==
    LET avg_sleep == numeric_avg(Column(rows, "sleep_hrs"))
        avg_weight == numeric_avg(Column(rows, "weight"))
        avg_cal == numeric_avg(Column(rows, "calories"))
        avg_steps == numeric_avg(Column(rows, "steps"))
        when(c, line) == IF c THEN <<line>> ELSE <<>>
        pct(avg, goal) == RoundHalfEven(Val(avg).num * 1000, Val(avg).den * Val(goal))
    IN  IF NoRows(rows) THEN <<Line("No data to analyze", <<>>, "")>>
        ELSE <<Line("In the last", <<Len(rows)>>, "days:")>>
             \o when(AvgTruthy(avg_sleep), Line("- Average sleep:", <<Fmt(avg_sleep, 100)>>, "hrs"))
             \o when(AvgTruthy(avg_weight), Line("- Average weight:", <<Fmt(avg_weight, 100)>>, "kg"))
             \o when(AvgTruthy(avg_cal), Line("- Average calories burned:", <<Fmt(avg_cal, 10)>>, ""))
             \o when(AvgTruthy(avg_steps), Line("- Average steps:", <<Fmt(avg_steps, 1)>>, ""))
             \o (IF g = None THEN <<>>
                 ELSE when(Truthy(Val(g).weight_goal) /\ AvgTruthy(avg_weight),
                           Line("- Weight vs goal: avg",
                                <<Fmt(avg_weight, 100),
                                  RoundHalfEven(100 * (Val(avg_weight).num
                                                       - Val(Val(g).weight_goal) * Val(avg_weight).den),
                                                Val(avg_weight).den)>>, "kg"))
                      \o when(Truthy(Val(g).steps_goal) /\ AvgTruthy(avg_steps),
                              Line("- Steps goal attainment (avg/day):",
                                   <<pct(avg_steps, Val(g).steps_goal)>>, "%"))
                      \o when(Truthy(Val(g).calories_goal) /\ AvgTruthy(avg_cal),
                              Line("- Calorie burn goal attainment (avg/day):",
                                   <<pct(avg_cal, Val(g).calories_goal)>>, "%"))
                      \o when(Truthy(Val(g).sleep_goal) /\ AvgTruthy(avg_sleep),
                              Line("- Sleep goal attainment (avg/day):",
                                   <<pct(avg_sleep, Val(g).sleep_goal)>>, "%")))
             \o WeightTrend(NotNone(Column(rows, "weight")))
             \o (IF u # None /\ Truthy(Val(u).height_cm) /\ Truthy(Val(u).weight_kg)
                    /\ Truthy(Val(u).age)
                 THEN LET bmi == calc_bmi(Val(Val(u).weight_kg), Val(Val(u).height_cm))
                          bmr == calc_bmr(Val(Val(u).weight_kg), Val(Val(u).height_cm),
                                          Val(Val(u).age), "male")
                      IN  <<Line("- BMI:", bmi, bmi_category(bmi)),
                            Line("- Estimated BMR:", <<bmr>>, "kcal/day")>>
                 ELSE <<>>)

\* FitnessApp.refresh_insights for the user logged in and the tables of the
\* database as they are when it runs: the texts it can leave in the Insights tab.
refresh_insights(username, db_users, db_daily, db_goals) ==
    {InsightLines(rows, FetchOne(db_goals, username), FetchOne(db_users, username)) :
        rows \in get_last_n_days(db_daily, username, INSIGHT_DAYS)}

\* ---------------------------------------------------------- class FitnessApp

\* `text or None`
OrNone(t) == IF t = <<>> THEN None ELSE Some(t)

\* `int(age) if age else None`, `float(height) if height else None`
ParseIfSome(o) ==
    IF ~IsSome(o) THEN Ok(None)
    ELSE LET r == ParseNumber(Val(o)) IN IF r.ok THEN Ok(Some(r.val)) ELSE Raise

\* The login screen (and its Login, Signup and Forgot Password buttons) exists
\* while nobody is logged in; the main screen replaces it on login.
OnLoginScreen == current_user = None

\* FitnessApp._open_signup
OpenSignup ==
    /\ OnLoginScreen
    /\ signup_open' = TRUE
    /\ handler' = "_open_signup"
    /\ msg' = NoDialog
    /\ UNCHANGED <<users, daily, goals, current_user, insight_text, probe, typed_answer>>

\* A variant of the check below that finds no username taken.
UsernameTakenNever(username) == FALSE

\* `if self.db.get_user(username):` of _create_account
UsernameTaken(username) == IsSome(get_user(username))

\* FitnessApp._create_account, with the texts of the Signup window's widgets.
CreateAccount(su_user, su_pass, su_age, su_height, su_weight, su_sec_q, su_sec_a) ==
    LET username == Strip(su_user)
        password == su_pass
        age == OrNone(Strip(su_age))
        height == OrNone(Strip(su_height))
        weight == OrNone(Strip(su_weight))
        sec_q == OrNone(Strip(su_sec_q))
        sec_a == su_sec_a
        a == ParseIfSome(age)
        h == ParseIfSome(height)
        w == ParseIfSome(weight)
    IN  /\ signup_open
        /\ handler' = "_create_account"
        /\ UNCHANGED <<daily, goals, current_user, insight_text, probe>>
        /\ IF username = <<>> \/ password = <<>>
           THEN /\ msg' = "Username and password required"
                /\ UNCHANGED <<users, signup_open, typed_answer>>
           ELSE IF UsernameTaken(username)
           THEN /\ msg' = "Username already exists"
                /\ UNCHANGED <<users, signup_open, typed_answer>>
           ELSE \E salt \in make_salt :
                \E sec_a_hash \in (IF sec_a # <<>>
                                   THEN {Some(hash_password(sec_a, sa_salt)) :
                                            sa_salt \in make_salt}
                                   ELSE {None}) :
                LET password_hash == hash_password(password, salt)
                    ins == create_user(username, Some(password_hash), a.val, h.val, w.val,
                                       sec_q, sec_a_hash)
                IN  IF ~a.ok \/ ~h.ok \/ ~w.ok
                    THEN /\ msg' = Uncaught
                         /\ UNCHANGED <<users, signup_open, typed_answer>>
                    ELSE IF ~ins.ok
                    THEN /\ msg' = Uncaught
                         /\ UNCHANGED <<users, signup_open, typed_answer>>
                    ELSE /\ users' = ins.val
                         /\ msg' = "Account created. Please login."
                         /\ signup_open' = FALSE
                         /\ typed_answer' =
                                [u \in DOMAIN typed_answer \cup {username} |->
                                    IF u = username THEN sec_a ELSE typed_answer[u]]

\* FitnessApp._forgot_password; the three texts are what the user types into
\* the three dialogs (empty also stands for a cancelled dialog).
ForgotPassword(username, answer, newpw) ==
    LET user == get_user(username)
    IN  /\ OnLoginScreen
        /\ handler' = "_forgot_password"
        /\ UNCHANGED <<daily, goals, current_user, signup_open, insight_text, probe,
                       typed_answer>>
        /\ IF username = <<>>
           THEN msg' = NoDialog /\ UNCHANGED users
           ELSE IF ~IsSome(user)
           THEN msg' = "User not found" /\ UNCHANGED users
           ELSE IF ~IsSome(Val(user).security_q)
           THEN msg' = "No security question set. Contact admin (not implemented)."
                /\ UNCHANGED users
           ELSE IF answer = <<>>
           THEN msg' = NoDialog /\ UNCHANGED users
           ELSE IF verify_password(Val(user).security_a_hash, answer).val
           THEN IF newpw # <<>>
                THEN \E salt \in make_salt :
                     /\ users' = set_password(username, Some(hash_password(newpw, salt)))
                     /\ msg' = "Password reset. Please login with new password."
                ELSE msg' = NoDialog /\ UNCHANGED users
           ELSE msg' = "Security answer did not match" /\ UNCHANGED users

\* FitnessApp.login; on success _build_main builds the main screen and
\* refreshes its tabs.
Login(login_user, login_pass) ==
    LET username == Strip(login_user)
        password == login_pass
        user == get_user(username)
    IN  /\ OnLoginScreen
        /\ handler' = "login"
        /\ UNCHANGED <<users, daily, goals, signup_open, probe, typed_answer>>
        /\ IF ~IsSome(user)
           THEN msg' = "User not found" /\ UNCHANGED <<current_user, insight_text>>
           ELSE IF verify_password(Val(user).password_hash, password).val
           THEN /\ msg' = NoDialog
                /\ current_user' = Some(username)
                /\ insight_text' \in refresh_insights(username, users, daily, goals)
           ELSE msg' = "Password incorrect" /\ UNCHANGED <<current_user, insight_text>>

\* A variant of logout that goes back to the login screen without
\* `self.current_user = None`.
LogoutStays ==
    /\ ~OnLoginScreen
    /\ insight_text' = <<>>
    /\ handler' = "logout"
    /\ msg' = NoDialog
    /\ UNCHANGED <<users, daily, goals, current_user, signup_open, probe, typed_answer>>

\* FitnessApp.logout; _build_login destroys the main screen's widgets.
Logout ==
    /\ ~OnLoginScreen
    /\ current_user' = None
    /\ insight_text' = <<>>
    /\ handler' = "logout"
    /\ msg' = NoDialog
    /\ UNCHANGED <<users, daily, goals, signup_open, probe, typed_answer>>

\* datetime.date.fromisoformat (Python 3.11 and later): the extended form
\* YYYY-MM-DD and the basic form YYYYMMDD are dates.  (The ISO week forms, which
\* contain a W, are dates too; no text of this model has one.)  Any other text
\* raises ValueError.
IsLeap(y) == (y % 4 = 0 /\ y % 100 # 0) \/ y % 400 = 0
DaysIn(y, m) ==
    IF m = 2 THEN (IF IsLeap(y) THEN 29 ELSE 28)
    ELSE IF m \in {4, 6, 9, 11} THEN 30 ELSE 31
IsoDate(y, m, d) ==
    IF y >= 1 /\ m >= 1 /\ m <= 12 /\ d >= 1 /\ d <= DaysIn(y, m)
    THEN Ok(<<y, m, d>>) ELSE Raise
fromisoformat(t) ==
    IF /\ Len(t) = 10
       /\ t[5] = ChDash /\ t[8] = ChDash
       /\ \A i \in {1, 2, 3, 4, 6, 7, 9, 10} : IsDigit(t[i])
    THEN IsoDate(DigitsValue(SubSeq(t, 1, 4)), DigitsValue(SubSeq(t, 6, 7)),
                 DigitsValue(SubSeq(t, 9, 10)))
    ELSE IF Len(t) = 8 /\ \A i \in 1..8 : IsDigit(t[i])
    THEN IsoDate(DigitsValue(SubSeq(t, 1, 4)), DigitsValue(SubSeq(t, 5, 6)),
                 DigitsValue(SubSeq(t, 7, 8)))
    ELSE Raise

\* `try: x = float(entry.get() or 0)  except: x = None` (and int for steps)
EntryField(t) ==
    LET r == IF t = <<>> THEN Ok(0) ELSE ParseNumber(t)
    IN  IF r.ok THEN Some(r.val) ELSE None

\* FitnessApp.add_entry, with the texts of the five entry widgets.
AddEntry(entry_date, entry_sleep, entry_weight, entry_cal, entry_steps) ==
    LET date_str == Strip(entry_date)
        sleep == EntryField(entry_sleep)
        weight == EntryField(entry_weight)
        calories == EntryField(entry_cal)
        steps == EntryField(entry_steps)
    IN  /\ ~OnLoginScreen
        /\ handler' = "add_entry"
        /\ UNCHANGED <<users, goals, current_user, signup_open, probe, typed_answer>>
        /\ IF ~fromisoformat(date_str).ok
           THEN /\ msg' = "Invalid date format. Use YYYY-MM-DD"
                /\ UNCHANGED <<daily, insight_text>>
           ELSE LET added == add_daily(Val(current_user), date_str, sleep, weight,
                                       calories, steps)
                IN  /\ daily' = added
                    /\ msg' = "Entry added"
                    /\ insight_text' \in
                            refresh_insights(Val(current_user), users, added, goals)

\* `try: g = float(goal.get()) if goal.get().strip() else None  except: g = None`
GoalField(t) ==
    IF Strip(t) = <<>> THEN None
    ELSE LET r == ParseNumber(t) IN IF r.ok THEN Some(r.val) ELSE None

\* FitnessApp.save_goals, with the texts of the four goal widgets.
SaveGoals(goal_weight, goal_steps, goal_cal, goal_sleep) ==
    LET wg == GoalField(goal_weight)
        sg == GoalField(goal_steps)
        cg == GoalField(goal_cal)
        sl == GoalField(goal_sleep)
        saved == upsert_goals(Val(current_user), wg, sg, cg, sl)
    IN  /\ ~OnLoginScreen
        /\ handler' = "save_goals"
        /\ goals' = saved
        /\ msg' = "Goals saved"
        /\ insight_text' \in refresh_insights(Val(current_user), users, daily, saved)
        /\ UNCHANGED <<users, daily, current_user, signup_open, probe, typed_answer>>

\* ------------------------------------------------------------------ inputs

\* The number of daily rows a run appends.
MaxDaily == 2

TxtEmpty == <<>>
TxtA == <<97>>
TxtANul == <<97, ChNul>>
TxtB == <<98>>
TxtQ == <<113>>
TxtX == <<120>>
UserU == <<117>>
UserV == <<118>>
UserUPadded == <<ChSpace, 117>>

\* str(n) of a natural number
RECURSIVE StrOfNat(_)
StrOfNat(n) == IF n < 10 THEN <<Ch0 + n>> ELSE Append(StrOfNat(n \div 10), Ch0 + (n % 10))

\* datetime.date(y, m, d).isoformat(), the text the date widget starts with
isoformat(y, m, d) ==
    LET pad(t, w) == [i \in 1..(w - Len(t)) |-> Ch0] \o t
    IN  pad(StrOfNat(y), 4) \o <<ChDash>> \o pad(StrOfNat(m), 2) \o <<ChDash>>
        \o pad(StrOfNat(d), 2)

\* Passwords and security answers typed.
Texts == {TxtEmpty, TxtA, TxtANul, TxtB}

ProfileBlank == <<TxtEmpty, TxtEmpty, TxtEmpty>>
ProfileFull == <<StrOfNat(30), StrOfNat(175), StrOfNat(70)>>
ProfileJunk == <<TxtX, TxtEmpty, TxtEmpty>>

\* What the Signup window is filled with: <<username, password, <<age, height,
\* weight>>, security question, security answer>>.
SignupForms ==
    ({UserU} \X {TxtA} \X {ProfileBlank} \X {TxtEmpty, TxtQ} \X {TxtEmpty, TxtA})
    \cup {<<UserU, TxtA, ProfileFull, TxtQ, TxtA>>,
          <<UserV, TxtA, ProfileBlank, TxtEmpty, TxtEmpty>>,
          <<UserUPadded, TxtB, ProfileBlank, TxtQ, TxtA>>,
          <<TxtEmpty, TxtA, ProfileBlank, TxtQ, TxtA>>,
          <<UserU, TxtEmpty, ProfileBlank, TxtQ, TxtA>>,
          <<UserU, TxtA, ProfileJunk, TxtQ, TxtA>>}

LoginNames == {TxtEmpty, UserU, UserV, UserUPadded}
ForgotNames == {TxtEmpty, UserU, UserV}
NewPasswords == {TxtEmpty, TxtB}

\* ---------------------------------------------------------- specifications

Init ==
    /\ users = {}
    /\ daily = <<>>
    /\ goals = {}
    /\ current_user = None
    /\ signup_open = FALSE
    /\ handler = NoHandler
    /\ msg = NoDialog
    /\ insight_text = <<>>
    /\ probe = None
    /\ typed_answer = <<>>

DoCreateAccount ==
    \E f \in SignupForms : CreateAccount(f[1], f[2], f[3][1], f[3][2], f[3][3], f[4], f[5])

DoForgotPassword ==
    \E username \in ForgotNames, answer \in Texts, newpw \in NewPasswords :
        ForgotPassword(username, answer, newpw)

DoLogin == \E login_user \in LoginNames, login_pass \in Texts : Login(login_user, login_pass)

\* The credential handlers: signup, password recovery, login and logout.
Next == OpenSignup \/ DoCreateAccount \/ DoForgotPassword \/ DoLogin \/ Logout

Spec == Init /\ [][Next]_vars

\* The entry widgets' texts <<sleep, weight, calories, steps>> and the date
\* widget's texts: a date in each of the two forms fromisoformat reads and a
\* text that is no ISO date.
EntryForms ==
    {<<TxtEmpty, TxtEmpty, TxtEmpty, TxtEmpty>>,
     <<StrOfNat(7), StrOfNat(70), TxtX, TxtEmpty>>}
EntryDates == {isoformat(2024, 1, 1), StrOfNat(20240102), StrOfNat(2024)}

\* The goal widgets' texts <<weight, steps, calories, sleep>>.
GoalForms ==
    {<<StrOfNat(65), StrOfNat(10000), StrOfNat(500), StrOfNat(8)>>,
     <<StrOfNat(65), TxtEmpty, TxtX, <<ChSpace>>>>}

\* The application started on the database file an earlier run left, in which
\* two accounts were created.
StoredUsers ==
    {UserRow(UserU, Some(hash_password(TxtA, CHOOSE s \in make_salt : TRUE)),
             Some(30), Some(175), Some(70), Some(TxtQ),
             Some(hash_password(TxtA, CHOOSE s \in make_salt : TRUE))),
     UserRow(UserV, Some(hash_password(TxtA, CHOOSE s \in make_salt : TRUE)),
             None, None, None, None, None)}
InitData ==
    /\ users = StoredUsers
    /\ daily = <<>>
    /\ goals = {}
    /\ current_user = None
    /\ signup_open = FALSE
    /\ handler = NoHandler
    /\ msg = NoDialog
    /\ insight_text = <<>>
    /\ probe = None
    /\ typed_answer = [u \in {UserU, UserV} |-> IF u = UserU THEN TxtA ELSE TxtEmpty]

DoLoginData ==
    \E login_user \in LoginNames, login_pass \in {TxtA, TxtB} : Login(login_user, login_pass)

DoAddEntry ==
    \E d \in EntryDates, f \in EntryForms :
        Len(daily) < MaxDaily /\ AddEntry(d, f[1], f[2], f[3], f[4])

DoSaveGoals == \E f \in GoalForms : SaveGoals(f[1], f[2], f[3], f[4])

\* The handlers of the main screen, with login and logout.
NextData == DoLoginData \/ Logout \/ DoAddEntry \/ DoSaveGoals

SpecData == InitData /\ [][NextData]_vars

\* verify_password as a function of its two arguments: stored texts that are
\* hashes, damaged hashes, empty or missing.
Damaged(h) ==
    {h, SubSeq(h, 1, Len(h) - 1), SubSeq(h, 1, Len(h) - 3), SubSeq(h, 1, Len(h) - 4),
     Append(h, B64Other), SubSeq(h, 1, Len(h) - 2) \o <<B64Pad, B64Pad>>,
     [h EXCEPT ![Len(h)] = (h[Len(h)] + 1) % B64Pad]}
StoredSamples ==
    {None, Some(<<>>)}
    \cup {Some(t) : t \in UNION {Damaged(hash_password(pw, s)) : pw \in {TxtA, TxtB},
                                                                 s \in make_salt}}

InitVerify ==
    /\ users = {}
    /\ daily = <<>>
    /\ goals = {}
    /\ current_user = None
    /\ signup_open = FALSE
    /\ handler = NoHandler
    /\ msg = NoDialog
    /\ insight_text = <<>>
    /\ typed_answer = <<>>
    /\ \E stored \in StoredSamples, attempt \in Texts :
        probe = Some([stored_hash |-> stored, password_attempt |-> attempt,
                      result |-> None])

VerifyCall ==
    /\ IsSome(probe)
    /\ Val(probe).result = None
    /\ probe' = Some([Val(probe) EXCEPT
                        !.result = Some(verify_password(Val(probe).stored_hash,
                                                        Val(probe).password_attempt))])
    /\ UNCHANGED <<users, daily, goals, current_user, signup_open, handler, msg,
                   insight_text, typed_answer>>

SpecVerify == InitVerify /\ [][VerifyCall]_vars

\* The queries of class DB as functions of the daily table and their
\* arguments.  The table is one an earlier run left: rows add_entry stored for
\* the two accounts, with dates in the two forms fromisoformat accepts.
QueryDates == {isoformat(2024, 1, 3), isoformat(2024, 1, 5), StrOfNat(20240102)}
QueryBounds == {None, Some(TxtEmpty)} \cup {Some(d) : d \in QueryDates}
StoredRows ==
    {[username |-> u, date |-> d, sleep_hrs |-> Some(7), weight |-> Some(70),
      calories |-> None, steps |-> Some(0), note |-> None] :
        u \in {UserU, UserV}, d \in QueryDates}
DailyTables ==
    UNION {{[i \in 1..k |-> [id |-> i] @@ t[i]] : t \in [1..k -> StoredRows]} :
              k \in 0..MaxDaily}

InitQuery ==
    /\ users = StoredUsers
    /\ daily \in DailyTables
    /\ goals = {}
    /\ current_user = None
    /\ signup_open = FALSE
    /\ handler = NoHandler
    /\ msg = NoDialog
    /\ insight_text = <<>>
    /\ probe = None
    /\ typed_answer = [u \in {UserU, UserV} |-> IF u = UserU THEN TxtA ELSE TxtEmpty]

RecentCall ==
    /\ probe = None
    /\ \E username \in {UserU, UserV}, n \in 0..MaxDaily :
        \E rows \in get_last_n_days(daily, username, n) :
            probe' = Some([op |-> "get_last_n_days", username |-> username, n |-> n,
                           result |-> rows])
    /\ UNCHANGED <<users, daily, goals, current_user, signup_open, handler, msg,
                   insight_text, typed_answer>>

RangeCall ==
    /\ probe = None
    /\ \E username \in {UserU, UserV}, start_date \in QueryBounds, end_date \in QueryBounds :
        \E rows \in get_daily_range(daily, username, start_date, end_date) :
            probe' = Some([op |-> "get_daily_range", username |-> username,
                           start_date |-> start_date, end_date |-> end_date,
                           result |-> rows])
    /\ UNCHANGED <<users, daily, goals, current_user, signup_open, handler, msg,
                   insight_text, typed_answer>>

NextQuery == RecentCall \/ RangeCall

SpecQuery == InitQuery /\ [][NextQuery]_vars

\* The Insights tab over the database file of an account with a history.  The
\* stored metrics <<sleep_hrs, weight, calories, steps>> of a day are numbers
\* (zero is one) or NULLs (what add_entry stores for texts that are no numbers).
MaxSeries == 3
SampleRows ==
    {<<Some(7), Some(70), None, Some(8000)>>,
     <<Some(8), Some(69), Some(400), Some(0)>>,
     <<None, None, None, None>>}
WeightsOnly(ws) == [i \in 1..Len(ws) |-> <<None, Some(ws[i]), None, None>>]
SampleSeries ==
    UNION {[1..k -> SampleRows] : k \in 0..MaxSeries}
    \cup {WeightsOnly(<<70, 69, 68>>), WeightsOnly(<<68, 70, 69, 71>>),
          WeightsOnly(<<70, 71, 70, 71, 68>>),
          WeightsOnly(<<118, 61, 85, 79, 98, 97>>)}
\* The daily table of a series: the days of user u from 1 January 2024 on, one
\* row a day, and a row of user v.
SeriesTable(series) ==
    [i \in 1..(Len(series) + 1) |->
        IF i <= Len(series)
        THEN [id |-> i, username |-> UserU, date |-> isoformat(2024, 1, i),
              sleep_hrs |-> series[i][1], weight |-> series[i][2],
              calories |-> series[i][3], steps |-> series[i][4], note |-> None]
        ELSE [id |-> i, username |-> UserV, date |-> isoformat(2024, 1, 1),
              sleep_hrs |-> Some(6), weight |-> Some(40), calories |-> Some(100),
              steps |-> Some(100), note |-> None]]
\* The profile <<age, height_cm, weight_kg>> user u signed up with.
StoredProfiles ==
    {<<Some(30), Some(175), Some(70)>>, <<None, Some(175), Some(70)>>,
     <<Some(30), None, Some(70)>>, <<Some(0), Some(160), Some(90)>>,
     <<None, None, None>>}
\* The goals <<weight, steps, calories, sleep>> user u saved, if any.
StoredGoals ==
    {None, Some(<<Some(65), Some(10000), Some(500), Some(8)>>),
     Some(<<Some(0), Some(0), None, Some(8)>>)}

InitInsights ==
    /\ \E profile \in StoredProfiles :
        users = {UserRow(UserU, Some(hash_password(TxtA, CHOOSE s \in make_salt : TRUE)),
                         profile[1], profile[2], profile[3], None, None),
                 UserRow(UserV, Some(hash_password(TxtA, CHOOSE s \in make_salt : TRUE)),
                         Some(20), Some(180), Some(100), None, None)}
    /\ \E series \in SampleSeries : daily = SeriesTable(series)
    /\ \E g \in StoredGoals :
        goals = IF g = None THEN {}
                ELSE {[username |-> UserU, weight_goal |-> Val(g)[1],
                       steps_goal |-> Val(g)[2], calories_goal |-> Val(g)[3],
                       sleep_goal |-> Val(g)[4]]}
    /\ current_user = None
    /\ signup_open = FALSE
    /\ handler = NoHandler
    /\ msg = NoDialog
    /\ insight_text = <<>>
    /\ probe = None
    /\ typed_answer = [u \in {UserU, UserV} |-> TxtEmpty]

\* Either account logs in with its password.
DoLoginInsights == \E login_user \in {UserU, UserV} : Login(login_user, TxtA)

NextInsights == DoLoginInsights \/ Logout \/ DoAddEntry \/ DoSaveGoals

SpecInsights == InitInsights /\ [][NextInsights]_vars

\* Password recovery and DB.update_user_info on the database file of two
\* accounts with daily rows and goals.  No callback of the application calls
\* update_user_info; it is called here as the method of DB it is, with a
\* username that may have no row.
ProfileArgs == {<<None, None, None>>, <<Some(31), Some(180), Some(75)>>}
FrameTables == {<<>>, SeriesTable(<<<<Some(7), Some(70), None, Some(8000)>>>>)}
FrameGoals ==
    {{}, {[username |-> u, weight_goal |-> Some(65), steps_goal |-> Some(10000),
           calories_goal |-> None, sleep_goal |-> Some(8)] : u \in {UserU, UserV}}}

InitFrame ==
    /\ users = StoredUsers
    /\ daily \in FrameTables
    /\ goals \in FrameGoals
    /\ current_user = None
    /\ signup_open = FALSE
    /\ handler = NoHandler
    /\ msg = NoDialog
    /\ insight_text = <<>>
    /\ probe = None
    /\ typed_answer = [u \in {UserU, UserV} |-> IF u = UserU THEN TxtA ELSE TxtEmpty]

UpdateUserInfo ==
    \E username \in {UserU, UserV, TxtB}, args \in ProfileArgs :
        /\ users' = update_user_info(username, args[1], args[2], args[3])
        /\ probe' = Some([op |-> "update_user_info", username |-> username, args |-> args])
        /\ UNCHANGED <<daily, goals, current_user, signup_open, handler, msg, insight_text,
                       typed_answer>>

NextFrame == DoForgotPassword \/ UpdateUserInfo

SpecFrame == InitFrame /\ [][NextFrame]_vars

\* ------------------------------------------------------------------ claims

AccountCreated == "Account created. Please login."
PasswordReset == "Password reset. Please login with new password."
UsernameExists == "Username already exists"
CredentialsRequired == "Username and password required"
UserNotFound == "User not found"
NoSecurityQuestionSet == "No security question set. Contact admin (not implemented)."
AnswerMismatch == "Security answer did not match"
GoalsSaved == "Goals saved"
EntryAdded == "Entry added"

\* The users row of a username in a users table.
RowOf(table, username) == Val(FetchOne(table, username))

\* C1: immediately after a successful create(username, password) or a
\* successful resetPassword(username, answer, password), verify(username, p)
\* is true when p is exactly that password and false for every other string p.
C1_VerifyOnlyExactPassword ==
    [][/\ (handler' = "_create_account" /\ msg' = AccountCreated) =>
            \A f \in SignupForms :
                CreateAccount(f[1], f[2], f[3][1], f[3][2], f[3][3], f[4], f[5])
                => \A p \in Texts :
                    verify_password(RowOf(users', Strip(f[1])).password_hash, p).val
                        <=> (p = f[2])
       /\ (handler' = "_forgot_password" /\ msg' = PasswordReset) =>
            \A username \in ForgotNames, answer \in Texts, newpw \in NewPasswords :
                ForgotPassword(username, answer, newpw)
                => \A p \in Texts :
                    verify_password(RowOf(users', username).password_hash, p).val
                        <=> (p = newpw)]_vars

\* C2: resetPassword called with an incorrect security answer (an answer other
\* than the one the account was created with) never changes the stored
\* password_hash of the user, whatever new password was intended.
C2_WrongAnswerKeepsHash ==
    [][handler' = "_forgot_password" =>
        \A username \in ForgotNames, answer \in Texts, newpw \in NewPasswords :
            (/\ IsSome(FetchOne(users, username))
             /\ answer # typed_answer[username]
             /\ ForgotPassword(username, answer, newpw))
            => RowOf(users', username).password_hash
                   = RowOf(users, username).password_hash]_vars

\* C3 as claimed: create with a username that already exists fails with
\* DuplicateUser and leaves the store unchanged.
C3_DuplicateAlwaysReported ==
    [][handler' = "_create_account" =>
        \A f \in SignupForms :
            \/ msg' = UsernameExists /\ users' = users
            \/ ~IsSome(FetchOne(users, Strip(f[1])))
            \/ ~CreateAccount(f[1], f[2], f[3][1], f[3][2], f[3][3], f[4], f[5])]_vars

\* C3 as amended: create with a username that already exists leaves the store
\* unchanged and fails with DuplicateUser when the password is not empty (with
\* "username and password required" when it is); and whatever is created, each
\* username has at most one users row.
C3_DuplicateRejected ==
    [][handler' = "_create_account" =>
        /\ \A f \in SignupForms :
            \/ /\ msg' = (IF f[2] # <<>> THEN UsernameExists ELSE CredentialsRequired)
               /\ users' = users
            \/ ~IsSome(FetchOne(users, Strip(f[1])))
            \/ ~CreateAccount(f[1], f[2], f[3][1], f[3][2], f[3][3], f[4], f[5])
        /\ \A r1 \in users', r2 \in users' : r1.username = r2.username => r1 = r2]_vars

\* C3: a second create of an existing username was rejected.
C3_Witness ==
    /\ handler = "_create_account"
    /\ msg = UsernameExists
    /\ \E r \in users : r.username = UserU

\* The hashes of each text under each salt, and whether a supplied answer
\* matches a stored answer hash: the hash is a hash of that answer; a missing
\* hash matches nothing.
AnswerHashes == {<<t, hash_password(t, s)>> : t \in Texts, s \in make_salt}
AnswerMatches(stored, answer) == IsSome(stored) /\ <<answer, Val(stored)>> \in AnswerHashes

\* The outcome C4 claims for resetPassword(username, answer, newpw).
ClaimedResetOutcome(username, answer, newpw) ==
    LET user == FetchOne(users, username)
    IN  IF ~IsSome(user) THEN UserNotFound
        ELSE IF ~IsSome(Val(user).security_q) THEN NoSecurityQuestionSet
        ELSE IF ~AnswerMatches(Val(user).security_a_hash, answer) THEN AnswerMismatch
        ELSE PasswordReset

\* The claimed outcome, with the calls that end without any outcome: no
\* username given, no answer given, no new password given.
AmendedResetOutcome(username, answer, newpw) ==
    LET user == FetchOne(users, username)
    IN  IF username = <<>> THEN NoDialog
        ELSE IF ~IsSome(user) THEN UserNotFound
        ELSE IF ~IsSome(Val(user).security_q) THEN NoSecurityQuestionSet
        ELSE IF answer = <<>> THEN NoDialog
        ELSE IF ~AnswerMatches(Val(user).security_a_hash, answer) THEN AnswerMismatch
        ELSE IF newpw = <<>> THEN NoDialog
        ELSE PasswordReset

\* C4 as claimed: resetPassword has exactly one outcome per call, decided in
\* this order: UserNotFound when the username is unknown; otherwise
\* NoSecurityQuestionSet when the user has no security question; otherwise
\* AnswerMismatch when the answer does not match the stored answer hash;
\* otherwise success.
C4_ResetOutcomeOrder ==
    [][handler' = "_forgot_password" =>
        \A username \in ForgotNames, answer \in Texts, newpw \in NewPasswords :
            \/ msg' = ClaimedResetOutcome(username, answer, newpw)
            \/ ~ForgotPassword(username, answer, newpw)]_vars

\* C4 as amended: a call without a username ends with no outcome; otherwise
\* UserNotFound when the username is unknown; otherwise NoSecurityQuestionSet
\* when the user has no security question; otherwise no outcome when no answer
\* is given; otherwise AnswerMismatch when the answer does not match the stored
\* answer hash; otherwise no outcome when no new password is given; otherwise
\* success.  Only success changes the users table.
C4_ResetOutcomeOrderAmended ==
    [][handler' = "_forgot_password" =>
        \A username \in ForgotNames, answer \in Texts, newpw \in NewPasswords :
            \/ /\ msg' = AmendedResetOutcome(username, answer, newpw)
               /\ msg' = PasswordReset \/ users' = users
            \/ ~ForgotPassword(username, answer, newpw)]_vars

\* C4: a reset was refused with AnswerMismatch for a user created with a
\* security question but no answer.
C4_Witness ==
    /\ handler = "_forgot_password"
    /\ msg = AnswerMismatch
    /\ \A r \in users : IsSome(r.security_q) => ~IsSome(r.security_a_hash)

\* C5: verify never raises: when the stored hash is missing or cannot be
\* decoded, verify returns false for every supplied password, and the caller's
\* state (current session, stored hashes) is unchanged.
C5_VerifyNeverRaises ==
    [][VerifyCall =>
        LET call == Val(probe')
        IN  /\ Val(call.result).ok
            /\ ~B64Decode(call.stored_hash).ok => Val(call.result).val = FALSE
            /\ UNCHANGED <<users, current_user>>]_vars

\* C5: verify_password has returned for a stored hash that cannot be decoded.
C5_Witness ==
    /\ IsSome(probe)
    /\ IsSome(Val(probe).result)
    /\ IsSome(Val(probe).stored_hash)
    /\ ~B64Decode(Val(probe).stored_hash).ok

\* C7: upsert has replace semantics: after upsert(user, w, s, c, sl), get(user)
\* returns exactly (w, s, c, sl), whatever was stored before; an absent
\* argument clears the stored value, and the result does not depend on whether
\* a goals row existed.
C7_UpsertReplaces ==
    [][handler' = "save_goals" =>
        \A f \in GoalForms :
            \/ ~SaveGoals(f[1], f[2], f[3], f[4])
            \/ LET row == get_goals(Val(current_user))'
               IN  /\ IsSome(row)
                   /\ Val(row).weight_goal = GoalField(f[1])
                   /\ Val(row).steps_goal = GoalField(f[2])
                   /\ Val(row).calories_goal = GoalField(f[3])
                   /\ Val(row).sleep_goal = GoalField(f[4])]_vars

\* C7: goals were saved with a weight goal and without a steps goal.
C7_Witness ==
    /\ handler = "save_goals"
    /\ \E r \in goals : /\ current_user = Some(r.username)
                        /\ IsSome(r.weight_goal)
                        /\ r.steps_goal = None

\* C8: there is at most one goals row per user; a user has no row until the
\* first upsert for that user and a row ever after; an upsert for one user
\* never creates or changes the goals row of another user.
C8_GoalsOnePerUser ==
    [][/\ \A r1 \in goals', r2 \in goals' : r1.username = r2.username => r1 = r2
       /\ \A r \in goals : \E r2 \in goals' : r2.username = r.username
       /\ \A r \in goals' :
            r \in goals \/ (handler' = "save_goals" /\ current_user = Some(r.username))]_vars

\* C8: two users have a goals row each.
C8_Witness ==
    \E r1 \in goals, r2 \in goals : r1.username = UserU /\ r2.username = UserV

\* C9: a daily record's numeric field that the user left blank is stored as
\* absent, never as zero.
C9_BlankStoredAbsent ==
    [][(handler' = "add_entry" /\ msg' = EntryAdded) =>
        \A d \in EntryDates, f \in EntryForms :
            \/ ~AddEntry(d, f[1], f[2], f[3], f[4])
            \/ LET row == daily'[Len(daily')]
               IN  /\ f[1] = <<>> => row.sleep_hrs = None
                   /\ f[2] = <<>> => row.weight = None
                   /\ f[3] = <<>> => row.calories = None
                   /\ f[4] = <<>> => row.steps = None]_vars

\* C10: the daily log is append-only without deduplication: every append adds
\* exactly one record even when the user already has a record for that date,
\* and no operation changes or removes a record already appended.
C10_DailyAppendOnly ==
    [][/\ Len(daily') >= Len(daily)
       /\ SubSeq(daily', 1, Len(daily)) = daily
       /\ (handler' = "add_entry" /\ msg' = EntryAdded) =>
            \A d \in EntryDates, f \in EntryForms :
                AddEntry(d, f[1], f[2], f[3], f[4]) => Len(daily') = Len(daily) + 1]_vars

\* C10: a user has two records of the same date.
C10_Witness ==
    \E i \in 1..Len(daily), j \in 1..Len(daily) :
        /\ i < j
        /\ daily[i].username = daily[j].username
        /\ daily[i].date = daily[j].date

\* The date a stored date text stands for, and the order of two dates.
DateOf(t) == fromisoformat(t).val
DateLeq(a, b) ==
    \/ a[1] < b[1]
    \/ a[1] = b[1] /\ a[2] < b[2]
    \/ a[1] = b[1] /\ a[2] = b[2] /\ a[3] <= b[3]

\* The ids of the daily rows of a user.
RowsOf(username) == {i \in 1..Len(daily) : daily[i].username = username}

\* `rows` lists the selected columns of the daily rows with the ids in `ids`,
\* each once, with ascending dates.
ListsAscending(rows, ids) ==
    /\ \E p \in [1..Len(rows) -> ids] :
        /\ \A i \in 1..Len(rows) : rows[i] = SelectedColumns(daily[p[i]])
        /\ \A i \in 1..Len(rows), j \in 1..Len(rows) : i < j => p[i] # p[j]
    /\ \A i \in 1..Len(rows), j \in 1..Len(rows) :
        i < j => DateLeq(DateOf(rows[i].date), DateOf(rows[j].date))

\* C11: recent(user, n) returns min(n, number of records of user) records, all
\* belonging to that user, in ascending date order, and every returned record
\* has a date greater than or equal to the date of every record of that user
\* that was not returned.
C11_RecentLastN ==
    (IsSome(probe) /\ Val(probe).op = "get_last_n_days") =>
        LET call == Val(probe)
            rows == call.result
            ids == RowsOf(call.username)
        IN  /\ Len(rows) = (IF call.n < Cardinality(ids) THEN call.n ELSE Cardinality(ids))
            /\ \E kept \in SUBSET ids :
                /\ Cardinality(kept) = Len(rows)
                /\ ListsAscending(rows, kept)
                /\ \A i \in kept, j \in ids \ kept :
                    DateLeq(DateOf(daily[j].date), DateOf(daily[i].date))

\* Whether an optional date bound is given.
Given(bound) == bound # None /\ Val(bound) # <<>>

\* C12: rangeQuery(user, startDate?, endDate?) returns exactly the records of
\* that user whose date d satisfies startDate <= d (when startDate is present)
\* and d <= endDate (when endDate is present), both inclusive, in ascending
\* date order; with both bounds absent it returns all records of the user.
C12_RangeInclusive ==
    (IsSome(probe) /\ Val(probe).op = "get_daily_range") =>
        LET call == Val(probe)
            within == {i \in RowsOf(call.username) :
                          /\ Given(call.start_date) =>
                                DateLeq(DateOf(Val(call.start_date)), DateOf(daily[i].date))
                          /\ Given(call.end_date) =>
                                DateLeq(DateOf(daily[i].date), DateOf(Val(call.end_date)))}
        IN  /\ Len(call.result) = Cardinality(within)
            /\ ListsAscending(call.result, within)

\* The daily rows refresh_insights reads: the last INSIGHT_DAYS of the user
\* logged in.
WindowRows ==
    CHOOSE rows \in get_last_n_days(daily, Val(current_user), INSIGHT_DAYS) : TRUE
Samples(metric) == NotNone(Column(WindowRows, metric))
\* The lines of a kind in the Insights tab.
Reported(kind) == {i \in 1..Len(insight_text) : insight_text[i].kind = kind}
AverageLine ==
    [sleep_hrs |-> "- Average sleep:", weight |-> "- Average weight:",
     calories |-> "- Average calories burned:", steps |-> "- Average steps:"]
AverageScale == [sleep_hrs |-> 100, weight |-> 100, calories |-> 10, steps |-> 1]

\* C13: for each of sleep, weight, calories and steps, the insight output
\* contains an average for the metric exactly when the window has at least one
\* non-null sample of that metric, and its value is the mean of those samples.
C13_AverageIffSample ==
    current_user # None =>
        \A metric \in DOMAIN AverageLine :
            /\ Reported(AverageLine[metric]) # {} <=> Samples(metric) # <<>>
            /\ \A i \in Reported(AverageLine[metric]) :
                insight_text[i].value =
                    <<RoundHalfEven(SumSeq(Samples(metric)) * AverageScale[metric],
                                    Len(Samples(metric)))>>

AttainmentLine ==
    [steps |-> "- Steps goal attainment (avg/day):",
     calories |-> "- Calorie burn goal attainment (avg/day):",
     sleep_hrs |-> "- Sleep goal attainment (avg/day):"]
GoalColumn == [steps |-> "steps_goal", calories |-> "calories_goal", sleep_hrs |-> "sleep_goal"]
\* The goal the user logged in has for a metric, None when there is none.
GoalOf(metric) ==
    LET g == get_goals(Val(current_user))
    IN  IF g = None THEN None ELSE Val(g)[GoalColumn[metric]]

\* C14: for steps, calories and sleep, goal attainment is reported exactly when
\* both the goal and the metric's average exist, and its value is avg/goal*100
\* (one decimal, here in tenths of a percent).
C14_AttainmentIffGoalAndAverage ==
    current_user # None =>
        \A metric \in DOMAIN AttainmentLine :
            /\ Reported(AttainmentLine[metric]) # {}
                <=> (GoalOf(metric) # None /\ Samples(metric) # <<>>)
            /\ \A i \in Reported(AttainmentLine[metric]) :
                insight_text[i].value =
                    <<RoundHalfEven(SumSeq(Samples(metric)) * 1000,
                                    Len(Samples(metric)) * Val(GoalOf(metric)))>>

TrendLine == "- Weight trend: slope"
\* The sign of the least-squares slope of ws over the day indices 0 .. k-1:
\* the sign of k * sum(i * ws[i]) - sum(i) * sum(ws[i]), in integers.
SlopeSign(ws) ==
    LET k == Len(ws)
        n == k * SumSeq([i \in 1..k |-> (i - 1) * ws[i]])
             - SumSeq([i \in 1..k |-> i - 1]) * SumSeq(ws)
    IN  IF n < 0 THEN -1 ELSE IF n > 0 THEN 1 ELSE 0
\* The non-null weights of the window, in each order the query can give them.
WeightSamples ==
    {NotNone(Column(rows, "weight")) :
        rows \in get_last_n_days(daily, Val(current_user), INSIGHT_DAYS)}

\* C15: with fewer than 3 non-null weight samples in the window no trend is
\* reported, and with 3 or more the trend is reported as 'losing' when the
\* least-squares slope of the samples over day index 0..k-1 is negative,
\* 'gaining' when it is positive and 'stable' when it is zero.
C15_TrendBySlopeSign ==
    current_user # None =>
        \E ws \in WeightSamples :
            IF Len(ws) < 3 THEN Reported(TrendLine) = {}
            ELSE /\ Cardinality(Reported(TrendLine)) = 1
                 /\ \A i \in Reported(TrendLine) :
                     insight_text[i].label =
                        (IF SlopeSign(ws) < 0 THEN "losing"
                         ELSE IF SlopeSign(ws) > 0 THEN "gaining" ELSE "stable")

BmiLine == "- BMI:"
BmrLine == "- Estimated BMR:"
\* The users row of the user logged in.
Profile == RowOf(users, Val(current_user))

\* C16: over a window that is not empty, BMI is reported whenever the user's
\* profile has both weight and height, whether or not age is present, and is
\* omitted when weight or height is missing.
C16_BmiIffWeightAndHeight ==
    (current_user # None /\ WindowRows # <<>>) =>
        (Reported(BmiLine) # {} <=> (Profile.weight_kg # None /\ Profile.height_cm # None))

\* 10*w + 6.25*h - 5*age + 5 rounded to one decimal, in tenths
MaleBmr(w, h, age) == RoundHalfEven(1000 * w + 625 * h - 500 * age + 500, 10)

\* C17: over a window that is not empty, BMR is reported exactly when weight,
\* height and age are all present in the profile, and every BMR reported is
\* 10*w + 6.25*h - 5*age + 5, the male branch.
C17_BmrIffProfilePresent ==
    (current_user # None /\ WindowRows # <<>>) =>
        /\ Reported(BmrLine) # {}
            <=> (Profile.weight_kg # None /\ Profile.height_cm # None /\ Profile.age # None)
        /\ \A i \in Reported(BmrLine) :
            insight_text[i].value =
                <<MaleBmr(Val(Profile.weight_kg), Val(Profile.height_cm), Val(Profile.age))>>

\* C17, amended: over a window that is not empty, BMR is reported exactly when
\* weight, height and age are all present in the profile and none of them is
\* zero, and every BMR reported is 10*w + 6.25*h - 5*age + 5, the male branch.
C17_BmrIffProfileNonZero ==
    (current_user # None /\ WindowRows # <<>>) =>
        /\ Reported(BmrLine) # {}
            <=> /\ Profile.weight_kg # None /\ Val(Profile.weight_kg) # 0
                /\ Profile.height_cm # None /\ Val(Profile.height_cm) # 0
                /\ Profile.age # None /\ Val(Profile.age) # 0
        /\ \A i \in Reported(BmrLine) :
            insight_text[i].value =
                <<MaleBmr(Val(Profile.weight_kg), Val(Profile.height_cm), Val(Profile.age))>>

\* A user of age 30, 175 cm and 70 kg is shown a BMR of 1648.8.
C17_Witness ==
    /\ current_user = Some(UserU)
    /\ Profile.age = Some(30) /\ Profile.height_cm = Some(175) /\ Profile.weight_kg = Some(70)
    /\ \E i \in Reported(BmrLine) : insight_text[i].value = <<16488>>

NoData == "No data to analyze"

\* C18: summarizing an empty record sequence yields the no-data result alone:
\* no average, goal-attainment, trend, BMI or BMR line, whatever goals and
\* profile the user has.
C18_EmptyWindowNoData ==
    (current_user # None /\ WindowRows = <<>>) =>
        insight_text = <<Line(NoData, <<>>, "")>>

\* A user with goals and a full profile and no daily row is shown the no-data
\* result.
C18_Witness ==
    /\ current_user = Some(UserU)
    /\ WindowRows = <<>>
    /\ get_goals(UserU) # None
    /\ Profile.age = Some(30) /\ Profile.height_cm = Some(175) /\ Profile.weight_kg = Some(70)
    /\ Reported(NoData) # {}

\* C19: the current user is none or a username of the store; a login sets it
\* only to the username whose stored password the typed password verifies
\* against, a login that reports a failure leaves it unchanged, logout sets it
\* to none and nothing else changes it; a step that changes the daily table
\* appends one row of the current user, and a step that changes the goals
\* table changes rows of the current user only.
C19_SessionUser ==
    /\ [](current_user # None => \E r \in users : r.username = Val(current_user))
    /\ [][/\ handler' = "logout" => current_user' = None
          /\ (handler' = "login" /\ msg' # NoDialog) => current_user' = current_user
          /\ current_user' # current_user =>
                \/ handler' = "logout"
                \/ /\ handler' = "login"
                   /\ current_user' # None
                   /\ \E login_user \in LoginNames, login_pass \in Texts :
                        /\ Strip(login_user) = Val(current_user')
                        /\ Login(login_user, login_pass)
                        /\ verify_password(RowOf(users, Val(current_user')).password_hash,
                                           login_pass).val
          /\ daily' # daily =>
                /\ current_user # None /\ current_user' = current_user
                /\ Len(daily') = Len(daily) + 1
                /\ SubSeq(daily', 1, Len(daily)) = daily
                /\ daily'[Len(daily')].username = Val(current_user)
          /\ goals' # goals =>
                /\ current_user # None /\ current_user' = current_user
                /\ \A r \in (goals' \ goals) \cup (goals \ goals') :
                    r.username = Val(current_user)]_vars

\* A user who logged in, stored a daily row and goals, and is still logged in.
C19_Witness ==
    /\ current_user = Some(UserV)
    /\ \E i \in 1..Len(daily) : daily[i].username = UserV
    /\ get_goals(UserV) # None
    /\ get_goals(UserU) = None

Usernames(table) == {r.username : r \in table}

\* C20: a step of password recovery, successful or not, leaves the daily and
\* goals tables and the set of usernames as they are, changes no column of
\* users but password_hash, and changes that only in the row of the username
\* typed; a call of update_user_info leaves the daily and goals tables, the
\* usernames, every row of another username and the password_hash,
\* security_q and security_a_hash of every row as they are.
C20_ResetAndUpdateFrame ==
    [][/\ daily' = daily
       /\ goals' = goals
       /\ Usernames(users') = Usernames(users)
       /\ (probe' = probe /\ handler' = "_forgot_password") =>
            /\ \A r \in users :
                [RowOf(users', r.username) EXCEPT !.password_hash = r.password_hash] = r
            /\ users' # users =>
                \E username \in ForgotNames, answer \in Texts, newpw \in NewPasswords :
                    /\ ForgotPassword(username, answer, newpw)
                    /\ \A r \in users \ users' : r.username = username
       /\ probe' # probe =>
            \A r \in users :
                LET after == RowOf(users', r.username)
                IN  /\ after.password_hash = r.password_hash
                    /\ after.security_q = r.security_q
                    /\ after.security_a_hash = r.security_a_hash
                    /\ r.username # Val(probe').username => after = r]_vars

\* The password of u was reset and the profile of u was updated while both
\* accounts had daily rows and goals.
C20_Witness ==
    /\ msg = PasswordReset
    /\ probe # None /\ Val(probe).username = UserU
    /\ goals # {}
    /\ {daily[i].username : i \in 1..Len(daily)} = {UserU, UserV}
    /\ RowOf(users, UserU).age = Some(31)
    /\ RowOf(users, UserU).password_hash # RowOf(StoredUsers, UserU).password_hash
    /\ RowOf(users, UserV) = RowOf(StoredUsers, UserV)

====
